---- MODULE Spec2Model ----
(***************************************************************************)
(* The reconciliation matching engine (reconcileTransactions) of the       *)
(* SMART Bank Reconciliation Statement App, as a state machine: one run    *)
(* of the function from its entry to its return, one step per loop         *)
(* iteration of each of its three passes (Spec, FairSpec); two             *)
(* invocations of it interleaved step by step (TwoCallsSpec); and the App  *)
(* component that calls it from a timer (AppSpec).  The variables marked   *)
(* "record of the run" are no state of the program: they keep what a step  *)
(* has read or done, for the properties that speak of it.                  *)
(*                                                                         *)
(* Representation of the JavaScript values:                                *)
(*  - a string that is inspected character by character (description) is   *)
(*    a sequence of one-character strings;                                 *)
(*  - a date string 'YYYY-MM-DD' is the record of its three fields; two    *)
(*    such strings are equal exactly when the records are;                 *)
(*  - an amount is an integer number of units of 0.01 / AmountTolerance    *)
(*    (half a cent), so that amounts closer than the engine's tolerance    *)
(*    but different exist; sums are exact (rounding drift of IEEE doubles  *)
(*    is not modelled);                                                    *)
(*  - a confidence is an integer number of tenths (1.0 is 10);             *)
(*  - array indices are 1-based, and the "not found" result -1 of          *)
(*    Array.prototype.findIndex is NotFound = 0.                           *)
(***************************************************************************)
EXTENDS Integers, Sequences, FiniteSets, TLC

VARIABLES
    bankTransactions,    \* argument of reconcileTransactions (the caller's array)
    ledgerTransactions,  \* argument of reconcileTransactions (the caller's array)
    unmatchedBank,       \* local pool, shrinks as matches are found
    unmatchedLedger,     \* local pool, shrinks as matches are found
    matches,             \* local array of MatchedTransaction
    i,                   \* loop index of the pass being run (1-based)
    pc,                  \* position in the function
    summary,             \* summary of the returned report
    startPool,           \* record of the run: the bank pool when the loop started
    examined,            \* record of the run: what the loop has read as bankTx
    callArgs,            \* two callers: the arrays each passes to its invocation
    callPc,              \* two invocations: the position of each in the function
    frames,              \* two invocations: the locals of each
    returned,            \* two invocations: what each has returned, if it has
    bankFile,            \* App state: FileData of the bank side, or undefined
    ledgerFile,          \* App state: FileData of the ledger side, or undefined
    reconciliationReport, \* App state: the report shown, or null
    isProcessing,        \* App state
    error,               \* App state: the message shown, or null
    companyName,         \* App state
    parses,              \* calls of parseDocumentWithGemini not yet settled
    timer,               \* the callback that handleReconcile has scheduled
    lastSelected,        \* record of the run: the file last put on each side
    resetSinceReconcile  \* record of the run: reset has run, handleReconcile not since

\* one run of reconcileTransactions
engineVars == <<bankTransactions, ledgerTransactions, unmatchedBank,
                unmatchedLedger, matches, i, pc, summary, startPool, examined>>
\* two interleaved invocations
callVars == <<callArgs, callPc, frames, returned>>

\* the App component and what it has started
appVars == <<bankFile, ledgerFile, reconciliationReport, isProcessing, error,
             companyName, parses, timer, lastSelected, resetSinceReconcile>>

vars == <<engineVars, callVars, appVars>>

\* what a step of the single run does not touch
otherVars == <<callVars, appVars>>

---------------------------------------------------------------------------
(* Bounds of the checked inputs *)

MaxBank == 2
MaxLedger == 2
\* longest argument of the first of two interleaved invocations
MaxInterleaved == 1
\* most calls of parseDocumentWithGemini in flight at a time
MaxParses == 2

---------------------------------------------------------------------------
(* Policy constants of the engine *)

\* 0.01, in amount units: one unit is 0.01 / AmountTolerance
AmountTolerance == 2
\* the +/- 3 days window of Pass 2
FuzzyDays == 3
\* confidences, in tenths
ConfidenceExact == 10
ConfidenceFuzzyDate == 9
ConfidenceDescription == 7

NoteExact == "Exact match on Date, Amount, and Type"
NoteFuzzyDate == "Match on Amount/Type within 3 days"
NoteDescription == "Match on Amount and similar Description"

NotFound == 0

\* an amount of w whole currency units and c cents
Money(w, c) == (w * 100 + c) * AmountTolerance

Abs(x) == IF x < 0 THEN -x ELSE x

Range(s) == {s[k] : k \in 1..Len(s)}

---------------------------------------------------------------------------
(* Strings: String.prototype.toLowerCase, replace(/[^a-z0-9]/g, ''),       *)
(* String.prototype.includes                                               *)

UpperChars == <<"A","B","C","D","E","F","G","H","I","J","K","L","M",
                "N","O","P","Q","R","S","T","U","V","W","X","Y","Z">>
LowerChars == <<"a","b","c","d","e","f","g","h","i","j","k","l","m",
                "n","o","p","q","r","s","t","u","v","w","x","y","z">>
DigitChars == <<"0","1","2","3","4","5","6","7","8","9">>

ToLowerChar(c) ==
    IF c \in Range(UpperChars)
    THEN LowerChars[CHOOSE k \in 1..Len(UpperChars) : UpperChars[k] = c]
    ELSE c

toLowerCase(str) == [k \in 1..Len(str) |-> ToLowerChar(str[k])]

IsLowerAlnum(c) == c \in Range(LowerChars) \cup Range(DigitChars)

normalize(str) == SelectSeq(toLowerCase(str), IsLowerAlnum)

\* haystack.includes(needle)
includes(haystack, needle) ==
    \E k \in 0..(Len(haystack) - Len(needle)) :
        SubSeq(haystack, k + 1, k + Len(needle)) = needle

---------------------------------------------------------------------------
(* Dates: new Date('YYYY-MM-DD').getTime() is 00:00 UTC of the day in      *)
(* milliseconds since the epoch, a multiple of 1000 * 60 * 60 * 24; the    *)
(* model counts time in that unit, whole days, so that                     *)
(* (d1 - d2) / (1000 * 60 * 60 * 24) is the difference of two getTime      *)

IsLeapYear(y) == (y % 4 = 0 /\ y % 100 # 0) \/ y % 400 = 0

DaysInMonth(y, m) ==
    IF m = 2 THEN (IF IsLeapYear(y) THEN 29 ELSE 28)
    ELSE IF m \in {4, 6, 9, 11} THEN 30 ELSE 31

RECURSIVE DaysBeforeMonth(_, _)
DaysBeforeMonth(y, m) ==
    IF m <= 1 THEN 0 ELSE DaysBeforeMonth(y, m - 1) + DaysInMonth(y, m - 1)

\* number of leap years in 1..y-1
LeapYearsBefore(y) == ((y - 1) \div 4) - ((y - 1) \div 100) + ((y - 1) \div 400)

DaysSinceEpoch(date) ==
    (date.year - 1970) * 365
    + (LeapYearsBefore(date.year) - LeapYearsBefore(1970))
    + DaysBeforeMonth(date.year, date.month)
    + (date.day - 1)

getTime(date) == DaysSinceEpoch(date)

Date(y, m, d) == [year |-> y, month |-> m, day |-> d]

---------------------------------------------------------------------------
(* Transactions and the sample fixtures *)

\* a Transaction; the optional reference is never read by the engine
Transaction(id, source, date, description, amount, type) ==
    [id |-> id, source |-> source, date |-> date, description |-> description,
     amount |-> amount, type |-> type]

\* ids 'bank-1' .. 'bank-6' are written 1 .. 6 with source BANK
SAMPLE_BANK_DATA == <<
    Transaction(1, "BANK", Date(2024, 3, 1),
        <<"T","e","c","h","S","o","l","u","t","i","o","n","s"," ","I","n","c"," ","-"," ","I","n","v"," ","#","2","0","2","4","-","0","0","1">>,
        Money(12500, 0), "CREDIT"),
    Transaction(2, "BANK", Date(2024, 3, 3),
        <<"O","f","f","i","c","e"," ","D","e","p","o","t"," ","-"," ","S","u","p","p","l","i","e","s">>,
        Money(245, 50), "DEBIT"),
    Transaction(3, "BANK", Date(2024, 3, 5),
        <<"U","b","e","r"," ","R","i","d","e"," ","-"," ","C","l","i","e","n","t"," ","M","e","e","t","i","n","g">>,
        Money(45, 20), "DEBIT"),
    Transaction(4, "BANK", Date(2024, 3, 10),
        <<"M","o","n","t","h","l","y"," ","B","a","n","k"," ","S","e","r","v","i","c","e"," ","F","e","e">>,
        Money(35, 0), "DEBIT"),
    Transaction(5, "BANK", Date(2024, 3, 15),
        <<"C","h","e","c","k"," ","D","e","p","o","s","i","t"," ","-"," ","C","l","i","e","n","t"," ","B">>,
        Money(4500, 0), "CREDIT"),
    Transaction(6, "BANK", Date(2024, 3, 20),
        <<"A","W","S"," ","C","l","o","u","d"," ","S","e","r","v","i","c","e","s">>,
        Money(890, 0), "DEBIT")
    >>

\* ids 'ledger-1' .. 'ledger-5' are written 1 .. 5 with source LEDGER
SAMPLE_LEDGER_DATA == <<
    Transaction(1, "LEDGER", Date(2024, 3, 1),
        <<"T","e","c","h","S","o","l","u","t","i","o","n","s"," ","I","n","v","o","i","c","e"," ","P","a","y","m","e","n","t">>,
        Money(12500, 0), "CREDIT"),
    Transaction(2, "LEDGER", Date(2024, 3, 3),
        <<"O","f","f","i","c","e"," ","S","u","p","p","l","i","e","s">>,
        Money(245, 50), "DEBIT"),
    Transaction(3, "LEDGER", Date(2024, 3, 12),
        <<"C","l","i","e","n","t"," ","B"," ","P","a","y","m","e","n","t"," ","(","C","h","e","c","k",")">>,
        Money(4500, 0), "CREDIT"),
    Transaction(4, "LEDGER", Date(2024, 3, 20),
        <<"A","m","a","z","o","n"," ","W","e","b"," ","S","e","r","v","i","c","e","s">>,
        Money(890, 0), "DEBIT"),
    Transaction(5, "LEDGER", Date(2024, 3, 25),
        <<"S","o","f","t","w","a","r","e"," ","L","i","c","e","n","s","e"," ","A","n","n","u","a","l">>,
        Money(1200, 0), "DEBIT")
    >>

---------------------------------------------------------------------------
(* The checked inputs: every bank sequence of at most MaxBank and every    *)
(* ledger sequence of at most MaxLedger transactions whose fields are one  *)
(* of TxValues, with ids unique on each side; and the sample fixtures.     *)
(* TxValues has dates 0, 3 and 4 days apart across the end of a leap       *)
(* February, amounts 0, half a cent and one cent apart, both types, and    *)
(* descriptions that contain each other, that do not, and one that         *)
(* normalizes to the empty string.                                         *)

DateA == Date(2024, 2, 27)
DateB == Date(2024, 3, 1)
DateC == Date(2024, 3, 2)

TxValues == {
    <<DateA, <<"A","b","-","1">>, Money(100, 0),     "DEBIT">>,
    <<DateB, <<"b","1">>,         Money(100, 0),     "DEBIT">>,
    <<DateC, <<"x","y">>,         Money(100, 0) + 1, "DEBIT">>,
    <<DateC, <<"B">>,             Money(100, 0),     "DEBIT">>,
    <<DateA, <<"#">>,             Money(100, 1),     "DEBIT">>,
    <<DateA, <<"A","b","-","1">>, Money(100, 0),     "CREDIT">> }

ValueSeqs(n) == UNION {[1..m -> TxValues] : m \in 0..n}

Input(source, values) ==
    [k \in 1..Len(values) |->
        Transaction(k, source, values[k][1], values[k][2], values[k][3], values[k][4])]

NoSummary ==
    [totalMatchedAmount |-> -1, totalUnmatchedBankAmount |-> -1,
     totalUnmatchedLedgerAmount |-> -1, matchCount |-> -1, discrepancyCount |-> -1]

\* a value that may be undefined or null is a sequence of length at most 1
Undefined == <<>>
Defined(x) == <<x>>

\* the App component as mounted: the initial values of its useState hooks,
\* nothing started
AppInit ==
    /\ bankFile = Undefined
    /\ ledgerFile = Undefined
    /\ reconciliationReport = Undefined
    /\ isProcessing = FALSE
    /\ error = Undefined
    /\ companyName = ""
    /\ parses = <<>>
    /\ timer = Undefined
    /\ lastSelected = [BANK |-> Undefined, LEDGER |-> Undefined]
    /\ resetSinceReconcile = FALSE

\* the call: the arguments are bound, nothing of the body has run
Init ==
    /\ \/ \E bv \in ValueSeqs(MaxBank), lv \in ValueSeqs(MaxLedger) :
             /\ bankTransactions = Input("BANK", bv)
             /\ ledgerTransactions = Input("LEDGER", lv)
       \/ /\ bankTransactions = SAMPLE_BANK_DATA
          /\ ledgerTransactions = SAMPLE_LEDGER_DATA
    /\ unmatchedBank = <<>>
    /\ unmatchedLedger = <<>>
    /\ matches = <<>>
    /\ i = 0
    /\ pc = "enter"
    /\ summary = NoSummary
    /\ startPool = <<>>
    /\ examined = <<>>
    /\ callArgs = <<>>
    /\ callPc = <<>>
    /\ frames = <<>>
    /\ returned = <<>>
    /\ AppInit

---------------------------------------------------------------------------
(* Array operations *)

\* [...arr]
Copy(arr) == arr

\* slice in place of splice: nothing is removed
SpliceRemovesNothing(arr, k) == arr

\* arr.splice(k - 1, 1): the element before the k-th is removed, the last
\* one when there is none before
SpliceRemovesPrevious(arr, k) ==
    [n \in 1..(Len(arr) - (IF k \in 1..Len(arr) THEN 1 ELSE 0)) |->
        IF n < (IF k > 1 THEN k - 1 ELSE Len(arr)) THEN arr[n] ELSE arr[n + 1]]

\* removal by moving the last element into the hole
SpliceSwapsInLast(arr, k) ==
    [n \in 1..(Len(arr) - (IF k \in 1..Len(arr) THEN 1 ELSE 0)) |->
        IF n = k THEN arr[Len(arr)] ELSE arr[n]]

\* arr.splice(k, 1): arr without its k-th element (arr itself when k is no index)
Splice(arr, k) ==
    [n \in 1..(Len(arr) - (IF k \in 1..Len(arr) THEN 1 ELSE 0)) |->
        IF n < k THEN arr[n] ELSE arr[n + 1]]

\* a search that never looks at the first element
FindIndexSkipsFirst(holds) ==
    IF \E k \in 2..Len(holds) : holds[k]
    THEN CHOOSE k \in 2..Len(holds) :
            /\ holds[k]
            /\ \A n \in 2..(k - 1) : ~holds[n]
    ELSE NotFound

\* findLastIndex in place of findIndex: the greatest index
FindLastIndex(holds) ==
    IF \E k \in 1..Len(holds) : holds[k]
    THEN CHOOSE k \in 1..Len(holds) :
            /\ holds[k]
            /\ \A n \in (k + 1)..Len(holds) : ~holds[n]
    ELSE NotFound

\* arr.findIndex(P), given the sequence of the values of P on the elements
\* of arr: the least index whose element satisfies P
FindIndex(holds) ==
    IF \E k \in 1..Len(holds) : holds[k]
    THEN CHOOSE k \in 1..Len(holds) :
            /\ holds[k]
            /\ \A n \in 1..(k - 1) : ~holds[n]
    ELSE NotFound

\* arr.reduce((acc, t) => acc + f(t), acc), given the sequence of the values
\* of f on the elements of arr
RECURSIVE Reduce(_, _)
Reduce(values, acc) ==
    IF values = <<>> THEN acc ELSE Reduce(Tail(values), acc + Head(values))

\* a loop that starts one element short of the end of the pool
LoopStartOneShort(pool) == Len(pool) - 1

\* a loop that starts one element past the end of the pool
LoopStartOnePast(pool) == Len(pool) + 1

\* the start of "for (let i = pool.length - 1; i >= 0; i--)"
LoopStart(pool) == Len(pool)

---------------------------------------------------------------------------
(* The criteria of the three passes *)

\* <= 0.01 in place of < 0.01
amountMatchInclusive(ledgerTx, bankTx) ==
    IF ledgerTx.amount < bankTx.amount
    THEN bankTx.amount - ledgerTx.amount <= AmountTolerance
    ELSE ledgerTx.amount - bankTx.amount <= AmountTolerance

\* the difference compared without Math.abs
amountMatchNoAbs(ledgerTx, bankTx) ==
    ledgerTx.amount - bankTx.amount < AmountTolerance

amountMatch(ledgerTx, bankTx) ==
    Abs(ledgerTx.amount - bankTx.amount) < AmountTolerance

typeMatch(ledgerTx, bankTx) == ledgerTx.type = bankTx.type

dayDiff(ledgerTx, bankTx) == Abs(getTime(bankTx.date) - getTime(ledgerTx.date))

\* dayDiff < 3 in place of dayDiff <= 3
dayDiffMatchExclusive(ledgerTx, bankTx) == dayDiff(ledgerTx, bankTx) < FuzzyDays

dayDiffMatch(ledgerTx, bankTx) == dayDiff(ledgerTx, bankTx) <= FuzzyDays

descSim(ledgerTx, bankTx) ==
    \/ includes(normalize(bankTx.description), normalize(ledgerTx.description))
    \/ includes(normalize(ledgerTx.description), normalize(bankTx.description))

\* Pass 1 comparing the amounts with === in place of the tolerance
Pass1CriteriaEqualAmount(ledgerTx, bankTx) ==
    /\ ledgerTx.amount = bankTx.amount
    /\ ledgerTx.date = bankTx.date
    /\ ledgerTx.type = bankTx.type

\* Pass 1 with the date window of Pass 2 in place of the date equality
Pass1CriteriaDateWindow(ledgerTx, bankTx) ==
    /\ amountMatch(ledgerTx, bankTx)
    /\ typeMatch(ledgerTx, bankTx)
    /\ dayDiffMatch(ledgerTx, bankTx)

\* Pass 1 that also wants similar descriptions
Pass1CriteriaWithDescription(ledgerTx, bankTx) ==
    /\ amountMatch(ledgerTx, bankTx)
    /\ ledgerTx.date = bankTx.date
    /\ typeMatch(ledgerTx, bankTx)
    /\ descSim(ledgerTx, bankTx)

Pass1Criteria(ledgerTx, bankTx) ==
    /\ amountMatch(ledgerTx, bankTx)
    /\ ledgerTx.date = bankTx.date
    /\ typeMatch(ledgerTx, bankTx)

Pass2Criteria(ledgerTx, bankTx) ==
    /\ amountMatch(ledgerTx, bankTx)
    /\ typeMatch(ledgerTx, bankTx)
    /\ dayDiffMatch(ledgerTx, bankTx)

\* Pass 3 with the date window of Pass 2 added
Pass3CriteriaDateWindow(ledgerTx, bankTx) ==
    /\ amountMatch(ledgerTx, bankTx)
    /\ typeMatch(ledgerTx, bankTx)
    /\ dayDiffMatch(ledgerTx, bankTx)
    /\ descSim(ledgerTx, bankTx)

\* Pass 3 without its amount test
Pass3CriteriaNoAmount(ledgerTx, bankTx) ==
    /\ typeMatch(ledgerTx, bankTx)
    /\ descSim(ledgerTx, bankTx)

\* Pass 3 without its type test
Pass3CriteriaNoType(ledgerTx, bankTx) ==
    /\ amountMatch(ledgerTx, bankTx)
    /\ descSim(ledgerTx, bankTx)

Pass3Criteria(ledgerTx, bankTx) ==
    /\ amountMatch(ledgerTx, bankTx)
    /\ typeMatch(ledgerTx, bankTx)
    /\ descSim(ledgerTx, bankTx)

MatchedTransaction(bankTx, ledgerTx, confidence, notes) ==
    [bankParams |-> bankTx, ledgerParams |-> ledgerTx,
     confidence |-> confidence, notes |-> notes]

---------------------------------------------------------------------------
(* The steps of reconcileTransactions *)

\* arr[k] as JavaScript reads it: the element, or undefined outside the array
Read(arr, k) == IF k \in 1..Len(arr) THEN <<arr[k]>> ELSE <<>>

\* the ledger pool copied from the bank argument
EnterCopiesBankTwice ==
    /\ pc = "enter"
    /\ matches' = <<>>
    /\ unmatchedBank' = Copy(bankTransactions)
    /\ unmatchedLedger' = Copy(bankTransactions)
    /\ i' = LoopStart(unmatchedBank')
    /\ pc' = "pass1"
    /\ startPool' = unmatchedBank'
    /\ examined' = <<>>
    /\ UNCHANGED <<bankTransactions, ledgerTransactions, summary, otherVars>>

\* the three declarations and the initialisation of the first loop
Enter ==
    /\ pc = "enter"
    /\ matches' = <<>>
    /\ unmatchedBank' = Copy(bankTransactions)
    /\ unmatchedLedger' = Copy(ledgerTransactions)
    /\ i' = LoopStart(unmatchedBank')
    /\ pc' = "pass1"
    /\ startPool' = unmatchedBank'
    /\ examined' = <<>>
    /\ UNCHANGED <<bankTransactions, ledgerTransactions, summary, otherVars>>

\* a loop body that forgets to remove the matched ledger transaction
LoopBodyKeepsLedger(matchIndex, confidence, notes) ==
    /\ IF matchIndex # NotFound
       THEN /\ matches' = Append(matches,
                    [bankParams |-> unmatchedBank[i],
                     ledgerParams |-> unmatchedLedger[matchIndex],
                     confidence |-> confidence, notes |-> notes])
            /\ unmatchedBank' = [n \in 1..(Len(unmatchedBank) - 1) |->
                    IF n < i THEN unmatchedBank[n] ELSE unmatchedBank[n + 1]]
            /\ unmatchedLedger' = unmatchedLedger
       ELSE UNCHANGED <<matches, unmatchedBank, unmatchedLedger>>
    /\ i' = i - 1
    /\ examined' = Append(examined, Read(unmatchedBank, i))
    /\ UNCHANGED <<bankTransactions, ledgerTransactions, summary, pc, startPool,
                   otherVars>>

\* a loop body that puts the new entry in front (unshift in place of push)
LoopBodyUnshifts(matchIndex, confidence, notes) ==
    /\ IF matchIndex # NotFound
       THEN /\ matches' = <<[bankParams |-> unmatchedBank[i],
                             ledgerParams |-> unmatchedLedger[matchIndex],
                             confidence |-> confidence, notes |-> notes]>> \o matches
            /\ unmatchedBank' = Splice(unmatchedBank, i)
            /\ unmatchedLedger' = Splice(unmatchedLedger, matchIndex)
       ELSE UNCHANGED <<matches, unmatchedBank, unmatchedLedger>>
    /\ i' = i - 1
    /\ examined' = Append(examined, Read(unmatchedBank, i))
    /\ UNCHANGED <<bankTransactions, ledgerTransactions, summary, pc, startPool,
                   otherVars>>

\* one iteration of a pass: the body of the loop and its i--
LoopBody(matchIndex, confidence, notes) ==
    /\ IF matchIndex # NotFound
       THEN /\ matches' = Append(matches,
                    MatchedTransaction(unmatchedBank[i], unmatchedLedger[matchIndex],
                                       confidence, notes))
            /\ unmatchedBank' = Splice(unmatchedBank, i)
            /\ unmatchedLedger' = Splice(unmatchedLedger, matchIndex)
       ELSE UNCHANGED <<matches, unmatchedBank, unmatchedLedger>>
    /\ i' = i - 1
    /\ examined' = Append(examined, Read(unmatchedBank, i))
    /\ UNCHANGED <<bankTransactions, ledgerTransactions, summary, pc, startPool,
                   otherVars>>

\* the loop condition fails: on to the next loop
LoopExit(next) ==
    /\ i < 1
    /\ pc' = next
    /\ i' = LoopStart(unmatchedBank)
    /\ startPool' = unmatchedBank
    /\ examined' = <<>>
    /\ UNCHANGED <<bankTransactions, ledgerTransactions, unmatchedBank,
                   unmatchedLedger, matches, summary, otherVars>>

\* unmatchedBank[i] read at an index outside the pool is undefined, and the
\* findIndex callback, run on the first element of a non-empty ledger pool,
\* reads bankTx.amount of it: a TypeError
CallbackThrows ==
    /\ i \notin 1..Len(unmatchedBank)
    /\ unmatchedLedger # <<>>

\* the exception leaves reconcileTransactions
Throw ==
    /\ pc' = "error"
    /\ UNCHANGED <<bankTransactions, ledgerTransactions, unmatchedBank,
                   unmatchedLedger, matches, i, summary, startPool, examined,
                   otherVars>>

Pass1Step ==
    /\ pc = "pass1"
    /\ i >= 1
    /\ IF CallbackThrows
       THEN Throw
       ELSE LET bankTx == unmatchedBank[i]
                holds == [k \in 1..Len(unmatchedLedger) |->
                             Pass1Criteria(unmatchedLedger[k], bankTx)]
            IN LoopBody(FindIndex(holds), ConfidenceExact, NoteExact)

Pass1End == pc = "pass1" /\ LoopExit("pass2")

Pass2Step ==
    /\ pc = "pass2"
    /\ i >= 1
    /\ IF CallbackThrows
       THEN Throw
       ELSE LET bankTx == unmatchedBank[i]
                holds == [k \in 1..Len(unmatchedLedger) |->
                             Pass2Criteria(unmatchedLedger[k], bankTx)]
            IN LoopBody(FindIndex(holds), ConfidenceFuzzyDate, NoteFuzzyDate)

Pass2End == pc = "pass2" /\ LoopExit("pass3")

Pass3Step ==
    /\ pc = "pass3"
    /\ i >= 1
    /\ IF CallbackThrows
       THEN Throw
       ELSE LET bankTx == unmatchedBank[i]
                holds == [k \in 1..Len(unmatchedLedger) |->
                             Pass3Criteria(unmatchedLedger[k], bankTx)]
            IN LoopBody(FindIndex(holds), ConfidenceDescription, NoteDescription)

\* the matched total summed over the ledger side
LedgerAmountOfMatch(m) == m.ledgerParams.amount

BankAmountOfMatch(m) == m.bankParams.amount
AmountOf(t) == t.amount

totalMatchedAmount(ms) ==
    Reduce([k \in 1..Len(ms) |-> BankAmountOfMatch(ms[k])], 0)
totalUnmatchedAmount(pool) ==
    Reduce([k \in 1..Len(pool) |-> AmountOf(pool[k])], 0)

\* a summary whose discrepancyCount counts the bank side only
SummaryCountsBankOnly(ms, ub, ul) ==
    [totalMatchedAmount |-> totalMatchedAmount(ms),
     totalUnmatchedBankAmount |-> totalUnmatchedAmount(ub),
     totalUnmatchedLedgerAmount |-> totalUnmatchedAmount(ul),
     matchCount |-> Len(ms),
     discrepancyCount |-> Len(ub)]

Summary(ms, ub, ul) ==
    [totalMatchedAmount |-> totalMatchedAmount(ms),
     totalUnmatchedBankAmount |-> totalUnmatchedAmount(ub),
     totalUnmatchedLedgerAmount |-> totalUnmatchedAmount(ul),
     matchCount |-> Len(ms),
     discrepancyCount |-> Len(ub) + Len(ul)]

\* the third loop ends: the totals and the return
Return ==
    /\ pc = "pass3"
    /\ i < 1
    /\ summary' = Summary(matches, unmatchedBank, unmatchedLedger)
    /\ pc' = "done"
    /\ UNCHANGED <<bankTransactions, ledgerTransactions, unmatchedBank,
                   unmatchedLedger, matches, i, startPool, examined, otherVars>>

Next ==
    \/ Enter
    \/ Pass1Step
    \/ Pass1End
    \/ Pass2Step
    \/ Pass2End
    \/ Pass3Step
    \/ Return

Spec == Init /\ [][Next]_vars

\* the function is synchronous: once called it runs on until it returns or
\* throws
FairSpec == Spec /\ WF_vars(Next)

---------------------------------------------------------------------------
(* Two invocations of reconcileTransactions, interleaved step by step.     *)
(* The function is the same code; its steps are written here as a function *)
(* of the position, the locals and the arguments of one invocation.        *)
(* An array has an identity besides its contents: a pool that is the       *)
(* caller's array itself shows every splice to the caller.                 *)

\* "const unmatchedBank = bankTransactions": the pool is the argument itself
SameObject(argument) == argument

\* the array object that [...argument] evaluates to
SpreadObject(argument) == "new array"

\* the locals of an invocation
Frame(ms, ub, ul, idx, sm, bo, lo) ==
    [matches |-> ms, unmatchedBank |-> ub, unmatchedLedger |-> ul, i |-> idx,
     summary |-> sm, bankObject |-> bo, ledgerObject |-> lo]

\* before the declarations have run
NoFrame == Frame(<<>>, <<>>, <<>>, 0, NoSummary, "none", "none")

PassCriteria(p, ledgerTx, bankTx) ==
    CASE p = "pass1" -> Pass1Criteria(ledgerTx, bankTx)
      [] p = "pass2" -> Pass2Criteria(ledgerTx, bankTx)
      [] OTHER -> Pass3Criteria(ledgerTx, bankTx)

PassConfidence(p) ==
    CASE p = "pass1" -> ConfidenceExact
      [] p = "pass2" -> ConfidenceFuzzyDate
      [] OTHER -> ConfidenceDescription

PassNotes(p) ==
    CASE p = "pass1" -> NoteExact
      [] p = "pass2" -> NoteFuzzyDate
      [] OTHER -> NoteDescription

\* the loop that follows loop p
PassAfter(p) == IF p = "pass1" THEN "pass2" ELSE "pass3"

\* one step of an invocation at position p with locals f, called with the
\* arrays bank and ledger: the position and the locals after the step
StepOf(p, f, bank, ledger) ==
    IF p = "enter"
    THEN [pc |-> "pass1",
          frame |-> Frame(<<>>, Copy(bank), Copy(ledger), LoopStart(Copy(bank)),
                          f.summary, SpreadObject("bankTransactions"),
                          SpreadObject("ledgerTransactions"))]
    ELSE IF f.i >= 1
    THEN IF f.i \notin 1..Len(f.unmatchedBank) /\ f.unmatchedLedger # <<>>
         THEN [pc |-> "error", frame |-> f]
         ELSE LET bankTx == f.unmatchedBank[f.i]
                  holds == [k \in 1..Len(f.unmatchedLedger) |->
                               PassCriteria(p, f.unmatchedLedger[k], bankTx)]
                  matchIndex == FindIndex(holds)
              IN IF matchIndex # NotFound
                 THEN [pc |-> p,
                       frame |-> [f EXCEPT
                          !.matches = Append(@,
                              MatchedTransaction(bankTx, f.unmatchedLedger[matchIndex],
                                                 PassConfidence(p), PassNotes(p))),
                          !.unmatchedBank = Splice(@, f.i),
                          !.unmatchedLedger = Splice(@, matchIndex),
                          !.i = @ - 1]]
                 ELSE [pc |-> p, frame |-> [f EXCEPT !.i = @ - 1]]
    ELSE IF p = "pass3"
    THEN [pc |-> "done",
          frame |-> [f EXCEPT
             !.summary = Summary(f.matches, f.unmatchedBank, f.unmatchedLedger)]]
    ELSE [pc |-> PassAfter(p),
          frame |-> [f EXCEPT !.i = LoopStart(f.unmatchedBank)]]

\* the report object of the return statement
ReportOf(f) ==
    [matches |-> f.matches, unmatchedBank |-> f.unmatchedBank,
     unmatchedLedger |-> f.unmatchedLedger, summary |-> f.summary]

\* the steps of one invocation from position p on, with nothing in between
RECURSIVE RunToEnd(_, _, _, _)
RunToEnd(p, f, bank, ledger) ==
    IF p \in {"done", "error"}
    THEN [pc |-> p, frame |-> f]
    ELSE LET r == StepOf(p, f, bank, ledger)
         IN RunToEnd(r.pc, r.frame, bank, ledger)

\* reconcileTransactions(bank, ledger), run from its entry to its end
reconcileTransactions(bank, ledger) == RunToEnd("enter", NoFrame, bank, ledger)

Invocations == {1, 2}

\* locals kept in one place for all invocations (module-level state)
SharedFrame(c) == 1

\* the locals of invocation c are its own
FrameOf(c) == c

\* the arrays of a caller
Args(bank, ledger) == [bankTransactions |-> bank, ledgerTransactions |-> ledger]

\* arguments of a second invocation that differ from those of the first
SecondCallArgs ==
    {Args(Input("BANK", <<<<DateA, <<"A","b","-","1">>, Money(100, 0), "DEBIT">>,
                          <<DateB, <<"b","1">>, Money(100, 0), "DEBIT">>>>),
          Input("LEDGER", <<<<DateC, <<"B">>, Money(100, 0), "DEBIT">>,
                            <<DateA, <<"A","b","-","1">>, Money(100, 0), "DEBIT">>>>))}

\* two calls have been made, the second with other arguments or with the
\* same; nothing of either body has run
InitTwoCalls ==
    /\ \E bv \in ValueSeqs(MaxInterleaved), lv \in ValueSeqs(MaxInterleaved) :
          LET first == Args(Input("BANK", bv), Input("LEDGER", lv))
          IN \E second \in SecondCallArgs \cup {first} :
                callArgs = <<first, second>>
    /\ callPc = <<"enter", "enter">>
    /\ frames = <<NoFrame, NoFrame>>
    /\ returned = <<Undefined, Undefined>>
    /\ bankTransactions = <<>>
    /\ ledgerTransactions = <<>>
    /\ unmatchedBank = <<>>
    /\ unmatchedLedger = <<>>
    /\ matches = <<>>
    /\ i = 0
    /\ pc = "idle"
    /\ summary = NoSummary
    /\ startPool = <<>>
    /\ examined = <<>>
    /\ AppInit

\* the caller's array after a step: a pool that is the array itself has
\* been spliced in place
SeenByCaller(argument, object, name, pool) ==
    IF object = name THEN pool ELSE argument

\* invocation c takes its next step
InvocationStep(c) ==
    /\ callPc[c] \notin {"done", "error"}
    /\ LET r == StepOf(callPc[c], frames[FrameOf(c)],
                       callArgs[c].bankTransactions, callArgs[c].ledgerTransactions)
       IN /\ callPc' = [callPc EXCEPT ![c] = r.pc]
          /\ frames' = [frames EXCEPT ![FrameOf(c)] = r.frame]
          /\ returned' = [returned EXCEPT ![c] =
                IF r.pc = "done" THEN Defined(ReportOf(r.frame)) ELSE @]
          /\ callArgs' = [callArgs EXCEPT ![c] =
                Args(SeenByCaller(@.bankTransactions, r.frame.bankObject,
                                  "bankTransactions", r.frame.unmatchedBank),
                     SeenByCaller(@.ledgerTransactions, r.frame.ledgerObject,
                                  "ledgerTransactions", r.frame.unmatchedLedger))]
    /\ UNCHANGED <<engineVars, appVars>>

NextTwoCalls == \E c \in Invocations : InvocationStep(c)

TwoCallsSpec == InitTwoCalls /\ [][NextTwoCalls]_vars

---------------------------------------------------------------------------
(* The App component, the caller of reconcileTransactions: its state, its  *)
(* handlers, the parses it awaits and the timer it schedules.  A handler   *)
(* runs to completion; reconcileTransactions runs inside the timer         *)
(* callback, from its entry to its end in one step.  A handler is offered  *)
(* where the rendered view has the control that calls it.                  *)

Sides == {"BANK", "LEDGER"}

\* the files that a user selects
Files == {"statement.pdf", "ledger.csv"}

FileData(file, type, status, parsedData, err) ==
    [file |-> file, type |-> type, status |-> status,
     parsedData |-> parsedData, error |-> err]

\* what parseDocumentWithGemini resolves with: an array of transactions of
\* its source, which may be empty
ParsedOutcomes(type) ==
    {Input(type, <<>>),
     Input(type, <<<<DateA, <<"A","b","-","1">>, Money(100, 0), "DEBIT">>>>)}

ParseErrorMessage(type) ==
    IF type = "BANK"
    THEN "Failed to parse BANK file. Please ensure it is a legible PDF or CSV."
    ELSE "Failed to parse LEDGER file. Please ensure it is a legible PDF or CSV."

MessageNotParsed == "Please wait for both files to finish parsing."
MessageUnexpected == "An unexpected error occurred during reconciliation."

\* fileData?.parsedData
parsedDataOf(fileData) ==
    IF fileData = Undefined THEN Undefined ELSE fileData[1].parsedData

\* the upload view is rendered, not the Dashboard
UploadView == reconciliationReport = Undefined

\* setBankFile(fileData) or setLedgerFile(fileData), by the type
SetFile(type, fileData) ==
    IF type = "BANK"
    THEN bankFile' = fileData /\ UNCHANGED ledgerFile
    ELSE ledgerFile' = fileData /\ UNCHANGED bankFile

\* handleFileSelect up to its await; the drop zone of a side is rendered
\* while the side has no file
HandleFileSelect(file, type) ==
    /\ UploadView
    /\ (IF type = "BANK" THEN bankFile ELSE ledgerFile) = Undefined
    /\ Len(parses) < MaxParses
    /\ SetFile(type, Defined(FileData(file, type, "PARSING", Undefined, Undefined)))
    /\ error' = Undefined
    /\ parses' = Append(parses, [file |-> file, type |-> type])
    /\ lastSelected' = [lastSelected EXCEPT ![type] = Defined(file)]
    /\ UNCHANGED <<reconciliationReport, isProcessing, companyName, timer,
                   resetSinceReconcile, engineVars, callVars>>

\* handleFileSelect after its await: the parse has resolved
ParseResolves(k, parsedData) ==
    /\ k \in 1..Len(parses)
    /\ SetFile(parses[k].type,
               Defined(FileData(parses[k].file, parses[k].type, "READY",
                                Defined(parsedData), Undefined)))
    /\ parses' = Splice(parses, k)
    /\ UNCHANGED <<reconciliationReport, isProcessing, error, companyName, timer,
                   lastSelected, resetSinceReconcile, engineVars, callVars>>

\* handleFileSelect after its await: the parse has thrown
ParseRejects(k) ==
    /\ k \in 1..Len(parses)
    /\ SetFile(parses[k].type,
               Defined(FileData(parses[k].file, parses[k].type, "ERROR",
                                Undefined, Defined(ParseErrorMessage(parses[k].type)))))
    /\ parses' = Splice(parses, k)
    /\ UNCHANGED <<reconciliationReport, isProcessing, error, companyName, timer,
                   lastSelected, resetSinceReconcile, engineVars, callVars>>

HandleLoadSampleData ==
    /\ UploadView
    /\ bankFile' = Defined(FileData("sample_bank_statement_mar24.pdf", "BANK",
                                    "READY", Defined(SAMPLE_BANK_DATA), Undefined))
    /\ ledgerFile' = Defined(FileData("sample_general_ledger_mar24.csv", "LEDGER",
                                      "READY", Defined(SAMPLE_LEDGER_DATA), Undefined))
    /\ companyName' = "Tech Startups Inc"
    /\ error' = Undefined
    /\ lastSelected' = [BANK |-> Defined("sample_bank_statement_mar24.pdf"),
                        LEDGER |-> Defined("sample_general_ledger_mar24.csv")]
    /\ UNCHANGED <<reconciliationReport, isProcessing, parses, timer,
                   resetSinceReconcile, engineVars, callVars>>

\* a guard that lets the call through unless both sides are without data
BothParsedDataMissing(bank, ledger) ==
    parsedDataOf(bank) = Undefined /\ parsedDataOf(ledger) = Undefined

\* !bankFile?.parsedData || !ledgerFile?.parsedData (an array, even an empty
\* one, is truthy)
ParsedDataMissing(bank, ledger) ==
    parsedDataOf(bank) = Undefined \/ parsedDataOf(ledger) = Undefined

\* handleReconcile.  Its button is disabled while isProcessing; the rest of
\* the button's disabled attribute repeats the guard of the handler, and the
\* handler is taken to be called whatever that rest says, which is the case
\* its guard is written for.
HandleReconcile ==
    /\ UploadView
    /\ ~isProcessing
    /\ IF ParsedDataMissing(bankFile, ledgerFile)
       THEN /\ error' = Defined(MessageNotParsed)
            /\ UNCHANGED <<isProcessing, timer>>
       ELSE /\ isProcessing' = TRUE
            /\ timer' = Defined([bankFile |-> bankFile, ledgerFile |-> ledgerFile])
            /\ UNCHANGED error
    /\ resetSinceReconcile' = FALSE
    /\ UNCHANGED <<bankFile, ledgerFile, reconciliationReport, companyName, parses,
                   lastSelected, engineVars, callVars>>

\* the callback of setTimeout, with the bankFile and ledgerFile of the render
\* in which handleReconcile was called: try, catch and finally
TimerFires ==
    /\ timer # Undefined
    /\ LET bank == parsedDataOf(timer[1].bankFile)
           ledger == parsedDataOf(timer[1].ledgerFile)
       IN IF bank = Undefined \/ ledger = Undefined
          THEN error' = Defined(MessageUnexpected) /\ UNCHANGED reconciliationReport
          ELSE LET run == reconcileTransactions(bank[1], ledger[1])
               IN IF run.pc = "error"
                  THEN /\ error' = Defined(MessageUnexpected)
                       /\ UNCHANGED reconciliationReport
                  ELSE /\ reconciliationReport' = Defined(ReportOf(run.frame))
                       /\ UNCHANGED error
    /\ isProcessing' = FALSE
    /\ timer' = Undefined
    /\ UNCHANGED <<bankFile, ledgerFile, companyName, parses, lastSelected,
                   resetSinceReconcile, engineVars, callVars>>

\* reset: the Clear button of the upload view, rendered while a side has a
\* file, and the reset control of the Dashboard
Reset ==
    /\ \/ ~UploadView
       \/ bankFile # Undefined
       \/ ledgerFile # Undefined
    /\ bankFile' = Undefined
    /\ ledgerFile' = Undefined
    /\ reconciliationReport' = Undefined
    /\ error' = Undefined
    /\ lastSelected' = [BANK |-> Undefined, LEDGER |-> Undefined]
    /\ resetSinceReconcile' = TRUE
    /\ UNCHANGED <<isProcessing, companyName, parses, timer, engineVars, callVars>>

\* the App is mounted; no call of reconcileTransactions is under way
InitApp ==
    /\ AppInit
    /\ bankTransactions = <<>>
    /\ ledgerTransactions = <<>>
    /\ unmatchedBank = <<>>
    /\ unmatchedLedger = <<>>
    /\ matches = <<>>
    /\ i = 0
    /\ pc = "idle"
    /\ summary = NoSummary
    /\ startPool = <<>>
    /\ examined = <<>>
    /\ callArgs = <<>>
    /\ callPc = <<>>
    /\ frames = <<>>
    /\ returned = <<>>

NextApp ==
    \/ \E file \in Files, type \in Sides : HandleFileSelect(file, type)
    \/ \E k \in 1..MaxParses : \E type \in Sides :
          \E parsedData \in ParsedOutcomes(type) :
             /\ k \in 1..Len(parses)
             /\ parses[k].type = type
             /\ ParseResolves(k, parsedData)
    \/ \E k \in 1..MaxParses : ParseRejects(k)
    \/ HandleLoadSampleData
    \/ HandleReconcile
    \/ TimerFires
    \/ Reset

AppSpec == InitApp /\ [][NextApp]_vars

---------------------------------------------------------------------------
TypeOK ==
    /\ pc \in {"enter", "pass1", "pass2", "pass3", "done", "error"}
    /\ i \in 0..Len(bankTransactions)

\* the two forms of the steps agree: the single run ends with the report
\* that the steps written as a function compute
FormsAgree ==
    pc = "done" =>
        [matches |-> matches, unmatchedBank |-> unmatchedBank,
         unmatchedLedger |-> unmatchedLedger, summary |-> summary]
            = ReportOf(reconcileTransactions(bankTransactions, ledgerTransactions).frame)

---------------------------------------------------------------------------
(* Vocabulary of the properties, in terms of the inputs and of the report. *)
(* Eligibility is spelled out here from the fields of the transactions.    *)

Done == pc = "done"

MatchedBank == {matches[n].bankParams : n \in 1..Len(matches)}
MatchedLedger == {matches[n].ledgerParams : n \in 1..Len(matches)}

RECURSIVE SumOfAmounts(_)
SumOfAmounts(txs) ==
    IF txs = <<>> THEN 0 ELSE Head(txs).amount + SumOfAmounts(Tail(txs))

WithinTolerance(b, l) ==
    /\ b.amount - l.amount < AmountTolerance
    /\ l.amount - b.amount < AmountTolerance

DaysApart(b, l) ==
    LET d == DaysSinceEpoch(b.date) - DaysSinceEpoch(l.date)
    IN IF d < 0 THEN -d ELSE d

EligibleForPass1(b, l) ==
    WithinTolerance(b, l) /\ b.date = l.date /\ b.type = l.type

EligibleForPass2(b, l) ==
    WithinTolerance(b, l) /\ b.type = l.type /\ DaysApart(b, l) <= 3

\* the entries of matches that pair b with l
PairedAt(b, l) ==
    {matches[n].confidence : n \in {k \in 1..Len(matches) :
        matches[k].bankParams = b /\ matches[k].ledgerParams = l}}

\* the confidences at which b, or l, is matched with anything
BankMatchedAt(b) ==
    {matches[n].confidence : n \in {k \in 1..Len(matches) : matches[k].bankParams = b}}
LedgerMatchedAt(l) ==
    {matches[n].confidence : n \in {k \in 1..Len(matches) : matches[k].ledgerParams = l}}

---------------------------------------------------------------------------
\* C1. Partition: in the returned report every bank transaction of the input
\* is either the bank side of some match or in unmatchedBank, never both and
\* never neither; likewise every ledger transaction of the input.
C1_Partition ==
    Done =>
        /\ \A k \in 1..Len(bankTransactions) :
              (bankTransactions[k] \in MatchedBank)
                  # (bankTransactions[k] \in Range(unmatchedBank))
        /\ \A k \in 1..Len(ledgerTransactions) :
              (ledgerTransactions[k] \in MatchedLedger)
                  # (ledgerTransactions[k] \in Range(unmatchedLedger))

\* a report with matched and unmatched transactions on both sides
C1_Witness ==
    /\ Done
    /\ matches # <<>>
    /\ unmatchedBank # <<>>
    /\ unmatchedLedger # <<>>

\* C2. In every state of a run, between passes and in the report, no
\* transaction occurs in two entries of matches, and a transaction that is in
\* an entry of matches is no longer in its pool.
C2_AtMostOneMatch ==
    /\ \A m, n \in 1..Len(matches) :
          m # n => /\ matches[m].bankParams # matches[n].bankParams
                   /\ matches[m].ledgerParams # matches[n].ledgerParams
    /\ \A n \in 1..Len(matches) :
          /\ matches[n].bankParams \notin Range(unmatchedBank)
          /\ matches[n].ledgerParams \notin Range(unmatchedLedger)

\* Pass 2 is running with a Pass 1 match made, a bank transaction still to be
\* examined and ledger transactions left to pair it with
C2_Witness ==
    /\ pc = "pass2"
    /\ i >= 1
    /\ matches # <<>>
    /\ unmatchedLedger # <<>>

\* C3. Bank-side amount conservation: the matched total plus the unmatched
\* bank total of the summary is the sum of the amounts of the bank input.
C3_BankConservation ==
    Done =>
        summary.totalMatchedAmount + summary.totalUnmatchedBankAmount
            = SumOfAmounts(bankTransactions)

\* a report with a match whose two amounts differ, and an unmatched bank
\* transaction
C3_Witness ==
    /\ Done
    /\ unmatchedBank # <<>>
    /\ \E n \in 1..Len(matches) :
          matches[n].bankParams.amount # matches[n].ledgerParams.amount

\* C4 as stated. Ledger-side amount conservation: the matched total plus the
\* unmatched ledger total of the summary is the sum of the amounts of the
\* ledger input.
C4_LedgerConservation ==
    Done =>
        summary.totalMatchedAmount + summary.totalUnmatchedLedgerAmount
            = SumOfAmounts(ledgerTransactions)

LedgerSideGap ==
    summary.totalMatchedAmount + summary.totalUnmatchedLedgerAmount
        - SumOfAmounts(ledgerTransactions)

\* C4 as amended. The matched total plus the unmatched ledger total differs
\* from the sum of the amounts of the ledger input by less than the amount
\* tolerance (0.01) times the number of matches, and by nothing when there is
\* no match.
C4_LedgerConservationWithinTolerance ==
    Done =>
        /\ LedgerSideGap < AmountTolerance * summary.matchCount
              \/ (summary.matchCount = 0 /\ LedgerSideGap = 0)
        /\ -LedgerSideGap < AmountTolerance * summary.matchCount
              \/ (summary.matchCount = 0 /\ LedgerSideGap = 0)

\* a report with a match whose ledger amount is not its bank amount
C4_Witness ==
    /\ Done
    /\ \E n \in 1..Len(matches) :
          matches[n].bankParams.amount # matches[n].ledgerParams.amount
    /\ LedgerSideGap # 0

\* C5. Pass precedence, pair level: in every state, no entry of matches with
\* confidence 0.9 or 0.7 pairs a bank and a ledger transaction that satisfy
\* the Pass 1 criteria (amounts less than 0.01 apart, equal date, equal type).
C5_PassPrecedence ==
    \A n \in 1..Len(matches) :
        matches[n].confidence \in {ConfidenceFuzzyDate, ConfidenceDescription}
            => ~EligibleForPass1(matches[n].bankParams, matches[n].ledgerParams)

\* a report with an exact match, whose amounts differ within the tolerance,
\* and a weaker match
C5_Witness ==
    /\ Done
    /\ \E n \in 1..Len(matches) :
          /\ matches[n].confidence = ConfidenceExact
          /\ matches[n].bankParams.amount # matches[n].ledgerParams.amount
    /\ \E n \in 1..Len(matches) :
          matches[n].confidence \in {ConfidenceFuzzyDate, ConfidenceDescription}

\* C6. Exact beats earlier fuzzy: when a bank transaction b has two ledger
\* candidates of its amount and type, le on its date and lf on another date
\* within 3 days and earlier in the ledger input, le being its only same-date
\* candidate and b the only bank transaction that is a same-date candidate of
\* le, the report pairs b with le at confidence 1.0 and does not pair b with lf.
ExactAndEarlierFuzzy(kb, kf, ke) ==
    LET b == bankTransactions[kb]
        lf == ledgerTransactions[kf]
        le == ledgerTransactions[ke]
    IN /\ kf < ke
       /\ EligibleForPass1(b, le)
       /\ EligibleForPass2(b, lf) /\ lf.date # b.date
       /\ \A k \in 1..Len(ledgerTransactions) :
             k # ke => ~EligibleForPass1(b, ledgerTransactions[k])
       /\ \A k \in 1..Len(bankTransactions) :
             k # kb => ~EligibleForPass1(bankTransactions[k], le)

C6_ExactBeatsEarlierFuzzy ==
    Done =>
        \A kb \in 1..Len(bankTransactions) :
            \A kf, ke \in 1..Len(ledgerTransactions) :
                ExactAndEarlierFuzzy(kb, kf, ke) =>
                    /\ PairedAt(bankTransactions[kb], ledgerTransactions[ke])
                          = {ConfidenceExact}
                    /\ BankMatchedAt(bankTransactions[kb]) = {ConfidenceExact}
                    /\ PairedAt(bankTransactions[kb], ledgerTransactions[kf]) = {}

\* a report for an input in which the fuzzy candidate precedes the exact one
C6_Witness ==
    /\ Done
    /\ \E kb \in 1..Len(bankTransactions) :
          \E kf, ke \in 1..Len(ledgerTransactions) : ExactAndEarlierFuzzy(kb, kf, ke)

\* C7 as stated. A bank transaction that has a counterpart satisfying the
\* Pass 1 criteria in the ledger input is matched at confidence 1.0: it is
\* never matched at 0.9 or 0.7 and never left unmatched.
C7_NeverWeakerNorUnmatched ==
    Done =>
        \A kb \in 1..Len(bankTransactions) :
            (\E kl \in 1..Len(ledgerTransactions) :
                EligibleForPass1(bankTransactions[kb], ledgerTransactions[kl]))
            => BankMatchedAt(bankTransactions[kb]) = {ConfidenceExact}

\* C7 as amended. A bank transaction that has counterparts satisfying the
\* Pass 1 criteria in the ledger input is matched at a weaker confidence or
\* left unmatched only when every such counterpart is matched at confidence
\* 1.0 with another bank transaction, one that comes later in the bank input
\* (and so was processed earlier) and satisfies the Pass 1 criteria with it.
C7_WeakerOnlyWhenCounterpartsClaimed ==
    Done =>
        \A kb \in 1..Len(bankTransactions) :
            BankMatchedAt(bankTransactions[kb]) # {ConfidenceExact} =>
                \A kl \in 1..Len(ledgerTransactions) :
                    EligibleForPass1(bankTransactions[kb], ledgerTransactions[kl]) =>
                        \E k2 \in (kb + 1)..Len(bankTransactions) :
                            /\ EligibleForPass1(bankTransactions[k2], ledgerTransactions[kl])
                            /\ PairedAt(bankTransactions[k2], ledgerTransactions[kl])
                                  = {ConfidenceExact}

\* a report in which a bank transaction with a Pass 1 counterpart in the
\* ledger input is matched at 0.9 or 0.7
C7_Witness ==
    /\ Done
    /\ \E kb \in 1..Len(bankTransactions) :
          /\ BankMatchedAt(bankTransactions[kb]) \cap
                {ConfidenceFuzzyDate, ConfidenceDescription} # {}
          /\ \E kl \in 1..Len(ledgerTransactions) :
                EligibleForPass1(bankTransactions[kb], ledgerTransactions[kl])

\* C8. No-match: when no bank amount is within the amount tolerance of any
\* ledger amount, the report has no match, unmatchedBank is the bank input and
\* unmatchedLedger the ledger input, in their order, and matchCount and
\* totalMatchedAmount are 0.
NoAmountOverlap ==
    \A kb \in 1..Len(bankTransactions) : \A kl \in 1..Len(ledgerTransactions) :
        ~WithinTolerance(bankTransactions[kb], ledgerTransactions[kl])

C8_NoMatch ==
    (Done /\ NoAmountOverlap) =>
        /\ matches = <<>>
        /\ unmatchedBank = bankTransactions
        /\ unmatchedLedger = ledgerTransactions
        /\ summary.matchCount = 0
        /\ summary.totalMatchedAmount = 0

\* a report for two non-empty inputs without amount overlap in which a bank
\* and a ledger transaction agree on date and type and have descriptions one
\* of which contains the other
C8_Witness ==
    /\ Done
    /\ NoAmountOverlap
    /\ \E kb \in 1..Len(bankTransactions) : \E kl \in 1..Len(ledgerTransactions) :
          /\ bankTransactions[kb].date = ledgerTransactions[kl].date
          /\ bankTransactions[kb].type = ledgerTransactions[kl].type
          /\ descSim(ledgerTransactions[kl], bankTransactions[kb])

\* C9. Empty input: for two empty inputs the report has no match, both
\* unmatched sequences empty and the five summary fields 0; when one of the
\* inputs is empty the report has no match and the two inputs are returned
\* whole as unmatched.
C9_EmptyInput ==
    Done =>
        /\ (bankTransactions = <<>> /\ ledgerTransactions = <<>>) =>
              /\ matches = <<>>
              /\ unmatchedBank = <<>>
              /\ unmatchedLedger = <<>>
              /\ summary = [totalMatchedAmount |-> 0, totalUnmatchedBankAmount |-> 0,
                            totalUnmatchedLedgerAmount |-> 0, matchCount |-> 0,
                            discrepancyCount |-> 0]
        /\ (bankTransactions = <<>> \/ ledgerTransactions = <<>>) =>
              /\ matches = <<>>
              /\ summary.matchCount = 0
              /\ unmatchedBank = bankTransactions
              /\ unmatchedLedger = ledgerTransactions

\* the report for two empty inputs
C9_Witness ==
    /\ Done
    /\ bankTransactions = <<>>
    /\ ledgerTransactions = <<>>

\* C10 as stated. A bank and a ledger transaction with amounts within the
\* tolerance, equal type, dates exactly 3 days apart and no same-date
\* candidate for either are matched with each other at confidence 0.9 with
\* the note of Pass 2.
ThreeDaysApartNoExact(kb, kl) ==
    LET b == bankTransactions[kb]
        l == ledgerTransactions[kl]
    IN /\ WithinTolerance(b, l) /\ b.type = l.type
       /\ DaysApart(b, l) = 3
       /\ \A k \in 1..Len(ledgerTransactions) :
             ~EligibleForPass1(b, ledgerTransactions[k])
       /\ \A k \in 1..Len(bankTransactions) :
             ~EligibleForPass1(bankTransactions[k], l)

FuzzyEntry(b, l) ==
    [bankParams |-> b, ledgerParams |-> l, confidence |-> ConfidenceFuzzyDate,
     notes |-> "Match on Amount/Type within 3 days"]

C10_ThreeDaysApartMatched ==
    Done =>
        \A kb \in 1..Len(bankTransactions) : \A kl \in 1..Len(ledgerTransactions) :
            ThreeDaysApartNoExact(kb, kl) =>
                FuzzyEntry(bankTransactions[kb], ledgerTransactions[kl]) \in Range(matches)

\* neither transaction has another candidate within the window of Pass 2
NoOtherFuzzyCandidate(kb, kl) ==
    /\ \A k \in 1..Len(ledgerTransactions) :
          k # kl => ~EligibleForPass2(bankTransactions[kb], ledgerTransactions[k])
    /\ \A k \in 1..Len(bankTransactions) :
          k # kb => ~EligibleForPass2(bankTransactions[k], ledgerTransactions[kl])

\* C10 as amended. A bank and a ledger transaction with amounts within the
\* tolerance, equal type, dates exactly 3 days apart in either direction, no
\* same-date candidate for either and no other candidate within 3 days for
\* either are matched with each other at confidence 0.9 with the note "Match
\* on Amount/Type within 3 days" (the sample fixtures bank-5 and ledger-3 are);
\* and in every state an entry of confidence 0.9 pairs transactions at most 3
\* days apart and carries that note.
C10_Pass2Window ==
    /\ Done =>
          \A kb \in 1..Len(bankTransactions) : \A kl \in 1..Len(ledgerTransactions) :
              (ThreeDaysApartNoExact(kb, kl) /\ NoOtherFuzzyCandidate(kb, kl)) =>
                  FuzzyEntry(bankTransactions[kb], ledgerTransactions[kl])
                      \in Range(matches)
    /\ (Done /\ bankTransactions = SAMPLE_BANK_DATA
             /\ ledgerTransactions = SAMPLE_LEDGER_DATA) =>
          FuzzyEntry(SAMPLE_BANK_DATA[5], SAMPLE_LEDGER_DATA[3]) \in Range(matches)
    /\ \A n \in 1..Len(matches) :
          matches[n].confidence = ConfidenceFuzzyDate =>
              /\ DaysApart(matches[n].bankParams, matches[n].ledgerParams) <= 3
              /\ matches[n].notes = "Match on Amount/Type within 3 days"

\* a report for an input with a bank transaction 3 days before its only
\* ledger candidate, next to a ledger transaction 4 days from that bank
\* transaction with an amount within the tolerance and the same type
C10_Witness ==
    /\ Done
    /\ \E kb \in 1..Len(bankTransactions) : \E kl \in 1..Len(ledgerTransactions) :
          /\ ThreeDaysApartNoExact(kb, kl)
          /\ NoOtherFuzzyCandidate(kb, kl)
          /\ DaysSinceEpoch(bankTransactions[kb].date)
                < DaysSinceEpoch(ledgerTransactions[kl].date)
          /\ \E k \in 1..Len(ledgerTransactions) :
                /\ WithinTolerance(bankTransactions[kb], ledgerTransactions[k])
                /\ bankTransactions[kb].type = ledgerTransactions[k].type
                /\ DaysApart(bankTransactions[kb], ledgerTransactions[k]) > 3

\* C11. Pass 1 ignores descriptions: a bank and a ledger transaction with
\* the same date, amounts within the tolerance and the same type, neither of
\* which has another same-date candidate, are matched with each other at
\* confidence 1.0 with the note of Pass 1, whatever their descriptions (the
\* sample fixtures bank-6 and ledger-4 are).
OnlyExactCandidates(kb, kl) ==
    /\ EligibleForPass1(bankTransactions[kb], ledgerTransactions[kl])
    /\ \A k \in 1..Len(ledgerTransactions) :
          k # kl => ~EligibleForPass1(bankTransactions[kb], ledgerTransactions[k])
    /\ \A k \in 1..Len(bankTransactions) :
          k # kb => ~EligibleForPass1(bankTransactions[k], ledgerTransactions[kl])

ExactEntry(b, l) ==
    [bankParams |-> b, ledgerParams |-> l, confidence |-> ConfidenceExact,
     notes |-> "Exact match on Date, Amount, and Type"]

C11_Pass1IgnoresDescriptions ==
    Done =>
        /\ \A kb \in 1..Len(bankTransactions) : \A kl \in 1..Len(ledgerTransactions) :
              OnlyExactCandidates(kb, kl) =>
                  /\ ExactEntry(bankTransactions[kb], ledgerTransactions[kl])
                        \in Range(matches)
                  /\ BankMatchedAt(bankTransactions[kb]) = {ConfidenceExact}
                  /\ LedgerMatchedAt(ledgerTransactions[kl]) = {ConfidenceExact}
        /\ (bankTransactions = SAMPLE_BANK_DATA
               /\ ledgerTransactions = SAMPLE_LEDGER_DATA) =>
              ExactEntry(SAMPLE_BANK_DATA[6], SAMPLE_LEDGER_DATA[4]) \in Range(matches)

\* a report for an input of TxValues with such a pair whose normalized
\* descriptions do not contain each other
C11_Witness ==
    /\ Done
    /\ bankTransactions # SAMPLE_BANK_DATA
    /\ \E kb \in 1..Len(bankTransactions) : \E kl \in 1..Len(ledgerTransactions) :
          /\ OnlyExactCandidates(kb, kl)
          /\ ~includes(normalize(bankTransactions[kb].description),
                       normalize(ledgerTransactions[kl].description))
          /\ ~includes(normalize(ledgerTransactions[kl].description),
                       normalize(bankTransactions[kb].description))

\* C12. In the report a ledger transaction whose amount is not within the
\* tolerance of the amount of any bank transaction of the input is in
\* unmatchedLedger, and a bank transaction whose amount is not within the
\* tolerance of any ledger amount is in unmatchedBank.
NoBankAmountNear(l) ==
    \A k \in 1..Len(bankTransactions) : ~WithinTolerance(bankTransactions[k], l)
NoLedgerAmountNear(b) ==
    \A k \in 1..Len(ledgerTransactions) : ~WithinTolerance(b, ledgerTransactions[k])

C12_NoCounterpartStaysUnmatched ==
    Done =>
        /\ \A kl \in 1..Len(ledgerTransactions) :
              NoBankAmountNear(ledgerTransactions[kl]) =>
                  /\ ledgerTransactions[kl] \in Range(unmatchedLedger)
                  /\ ledgerTransactions[kl] \notin MatchedLedger
        /\ \A kb \in 1..Len(bankTransactions) :
              NoLedgerAmountNear(bankTransactions[kb]) =>
                  /\ bankTransactions[kb] \in Range(unmatchedBank)
                  /\ bankTransactions[kb] \notin MatchedBank

\* a report with a match, and a ledger transaction that has no bank amount
\* within the tolerance although a bank transaction one cent below it has its
\* date and type
C12_Witness ==
    /\ Done
    /\ matches # <<>>
    /\ \E kl \in 1..Len(ledgerTransactions) :
          /\ NoBankAmountNear(ledgerTransactions[kl])
          /\ \E kb \in 1..Len(bankTransactions) :
                /\ bankTransactions[kb].date = ledgerTransactions[kl].date
                /\ bankTransactions[kb].type = ledgerTransactions[kl].type
                /\ ledgerTransactions[kl].amount - bankTransactions[kb].amount
                      = AmountTolerance

\* C13. Order of matches: in every state the entries of matches are in
\* non-increasing order of confidence (Pass 1 entries, then Pass 2 entries,
\* then Pass 3 entries), and among the entries of one confidence the bank
\* transactions are in strictly decreasing order of their index in the bank
\* input.
C13_OrderOfMatches ==
    \A m, n \in 1..Len(matches) :
        m < n =>
            /\ matches[m].confidence >= matches[n].confidence
            /\ matches[m].confidence = matches[n].confidence =>
                  \E km, kn \in 1..Len(bankTransactions) :
                      /\ bankTransactions[km] = matches[m].bankParams
                      /\ bankTransactions[kn] = matches[n].bankParams
                      /\ km > kn

\* a report with two entries of one confidence followed by an entry of a
\* lower confidence
C13_Witness ==
    /\ Done
    /\ \E m, n, q \in 1..Len(matches) :
          /\ m < n /\ n < q
          /\ matches[m].confidence = matches[n].confidence
          /\ matches[n].confidence > matches[q].confidence

\* C14. Order of residuals: once the pools are copied, in every state
\* unmatchedBank is a subsequence of the bank input and unmatchedLedger a
\* subsequence of the ledger input (their elements are elements of the input,
\* in the order of the input).
IsSubsequenceOf(pool, input) ==
    /\ \A n \in 1..Len(pool) : \E k \in 1..Len(input) : input[k] = pool[n]
    /\ \A m, n \in 1..Len(pool) :
          m < n => \E km, kn \in 1..Len(input) :
                      /\ input[km] = pool[m]
                      /\ input[kn] = pool[n]
                      /\ km < kn

C14_OrderOfResiduals ==
    pc # "enter" =>
        /\ IsSubsequenceOf(unmatchedBank, bankTransactions)
        /\ IsSubsequenceOf(unmatchedLedger, ledgerTransactions)

\* a pool of three or more transactions from which a transaction that was not
\* the last has been removed: the last of the input is still there, an
\* earlier one is not
C14_Witness ==
    /\ pc # "enter"
    /\ Len(unmatchedLedger) >= 3
    /\ ledgerTransactions[Len(ledgerTransactions)] \in Range(unmatchedLedger)
    /\ \E k \in 1..Len(ledgerTransactions) :
          ledgerTransactions[k] \notin Range(unmatchedLedger)

\* C15. Summary definitions: in the report matchCount is the length of
\* matches, discrepancyCount is the length of unmatchedBank plus the length of
\* unmatchedLedger, totalMatchedAmount is the sum of the bank-side amounts of
\* the matches, the two unmatched totals are the sums of the amounts of the
\* two unmatched sequences, and 2 * matchCount + discrepancyCount is the
\* number of input transactions.
RECURSIVE SumOfBankSides(_)
SumOfBankSides(ms) ==
    IF ms = <<>> THEN 0 ELSE Head(ms).bankParams.amount + SumOfBankSides(Tail(ms))

C15_SummaryDefinitions ==
    Done =>
        /\ summary.matchCount = Len(matches)
        /\ summary.discrepancyCount = Len(unmatchedBank) + Len(unmatchedLedger)
        /\ summary.totalMatchedAmount = SumOfBankSides(matches)
        /\ summary.totalUnmatchedBankAmount = SumOfAmounts(unmatchedBank)
        /\ summary.totalUnmatchedLedgerAmount = SumOfAmounts(unmatchedLedger)
        /\ 2 * summary.matchCount + summary.discrepancyCount
              = Len(bankTransactions) + Len(ledgerTransactions)

\* a report with two matches or more and unmatched transactions on both sides
C15_Witness ==
    /\ Done
    /\ summary.matchCount >= 2
    /\ unmatchedBank # <<>>
    /\ unmatchedLedger # <<>>

\* C16. Match validity by pass: in every state every entry of matches pairs
\* amounts less than 0.01 apart and equal types and has confidence 1.0, 0.9 or
\* 0.7; at 1.0 the dates are equal and the note is that of Pass 1; at 0.9 the
\* dates are at most 3 days apart and the note is that of Pass 2; at 0.7 one
\* normalized description contains the other and the note is that of Pass 3.
ValidEntry(m) ==
    /\ WithinTolerance(m.bankParams, m.ledgerParams)
    /\ m.bankParams.type = m.ledgerParams.type
    /\ m.confidence \in {ConfidenceExact, ConfidenceFuzzyDate, ConfidenceDescription}
    /\ m.confidence = ConfidenceExact =>
          /\ m.bankParams.date = m.ledgerParams.date
          /\ m.notes = "Exact match on Date, Amount, and Type"
    /\ m.confidence = ConfidenceFuzzyDate =>
          /\ DaysApart(m.bankParams, m.ledgerParams) <= 3
          /\ m.notes = "Match on Amount/Type within 3 days"
    /\ m.confidence = ConfidenceDescription =>
          /\ \/ includes(normalize(m.bankParams.description),
                         normalize(m.ledgerParams.description))
             \/ includes(normalize(m.ledgerParams.description),
                         normalize(m.bankParams.description))
          /\ m.notes = "Match on Amount and similar Description"

C16_MatchValidity == \A n \in 1..Len(matches) : ValidEntry(matches[n])

\* a report with an entry of confidence 0.7 whose dates are more than 3 days
\* apart, next to an entry of a higher confidence
C16_Witness ==
    /\ Done
    /\ \E n \in 1..Len(matches) :
          /\ matches[n].confidence = ConfidenceDescription
          /\ DaysApart(matches[n].bankParams, matches[n].ledgerParams) > 3
    /\ \E n \in 1..Len(matches) : matches[n].confidence > ConfidenceDescription

\* C19. Termination without error: every run of reconcileTransactions, on
\* every pair of input sequences including empty ones, reaches its return,
\* and no run is ever in the error state (no pass reads the bank pool at an
\* index outside it and throws).
C19_TerminatesWithoutError == <>Done /\ [](pc # "error")

\* a report reached after the bank pool has shrunk during two different
\* loops: an entry of confidence 1.0 and an entry of a lower confidence
C19_Witness ==
    /\ Done
    /\ \E n \in 1..Len(matches) : matches[n].confidence = ConfidenceExact
    /\ \E n \in 1..Len(matches) : matches[n].confidence < ConfidenceExact
    /\ Len(unmatchedBank) + 2 <= Len(bankTransactions)

C18_NoInterference ==
    /\ [][callArgs' = callArgs]_vars
    /\ [](\A c \in Invocations :
            callPc[c] = "done" =>
                returned[c] =
                    <<ReportOf(reconcileTransactions(callArgs[c].bankTransactions,
                                                     callArgs[c].ledgerTransactions).frame)>>)

\* the first invocation has returned a report with a match while the second,
\* called with other arrays, is in its second loop with matches of its own
\* already removed from its pools
C18_Witness ==
    /\ callArgs # <<>>
    /\ callArgs[1] # callArgs[2]
    /\ callPc[1] = "done"
    /\ returned[1] # <<>>
    /\ returned[1][1].matches # <<>>
    /\ Len(returned[1][1].unmatchedBank) < Len(callArgs[1].bankTransactions)
    /\ callPc[2] = "pass2"
    /\ frames[2].matches # <<>>
    /\ Len(frames[2].unmatchedLedger) < Len(callArgs[2].ledgerTransactions)

\* C20. The App calls reconcileTransactions only with parsed data of both
\* sides: a scheduled reconciliation always holds a bank file and a ledger
\* file that both have parsedData; and a call of handleReconcile while the
\* bank file or the ledger file has no parsedData sets the error "Please
\* wait for both files to finish parsing.", leaves isProcessing as it was,
\* schedules nothing and leaves reconciliationReport unchanged.
HasParsedData(fileData) ==
    /\ fileData # <<>>
    /\ fileData[1].parsedData # <<>>

C20_ReconcileNeedsParsedData ==
    /\ [](timer # <<>> =>
            /\ HasParsedData(timer[1].bankFile)
            /\ HasParsedData(timer[1].ledgerFile))
    /\ [][(HandleReconcile /\ ~(HasParsedData(bankFile) /\ HasParsedData(ledgerFile)))
            => /\ error' = <<"Please wait for both files to finish parsing.">>
               /\ isProcessing' = isProcessing
               /\ timer' = timer
               /\ reconciliationReport' = reconciliationReport]_vars

\* handleReconcile has been called while the bank side was ready and the
\* ledger side was still being parsed
C20_Witness ==
    /\ error = <<"Please wait for both files to finish parsing.">>
    /\ HasParsedData(bankFile)
    /\ ledgerFile # <<>>
    /\ ledgerFile[1].status = "PARSING"
    /\ ~isProcessing
    /\ timer = <<>>
    /\ reconciliationReport = <<>>

\* C21. Tie-break: a step of a pass pairs the bank transaction it examines
\* with the transaction of lowest index in the current ledger pool that is
\* eligible in that pass (and pairs it with nothing when none is), and no
\* step changes an entry that matches already has; and in the report, when
\* two bank transactions that entered a pass are both eligible in it for one
\* ledger transaction, which is the only one in the pool either is eligible
\* for and for which no bank transaction behind them in the input competes,
\* the one later in the bank input is paired with it in that pass.
Passes == {"pass1", "pass2", "pass3"}

EligibleForPass3(b, l) ==
    /\ WithinTolerance(b, l)
    /\ b.type = l.type
    /\ \/ includes(normalize(b.description), normalize(l.description))
       \/ includes(normalize(l.description), normalize(b.description))

EligibleIn(p, b, l) ==
    CASE p = "pass1" -> EligibleForPass1(b, l)
      [] p = "pass2" -> EligibleForPass2(b, l)
      [] OTHER -> EligibleForPass3(b, l)

ConfidenceOf(p) ==
    CASE p = "pass1" -> 10
      [] p = "pass2" -> 9
      [] OTHER -> 7

\* the indices of the ledger pool that are eligible for b in pass p
Candidates(p, b) ==
    {k \in 1..Len(unmatchedLedger) : EligibleIn(p, b, unmatchedLedger[k])}

LowestCandidatePaired ==
    (pc \in Passes /\ i \in 1..Len(unmatchedBank)) =>
        LET b == unmatchedBank[i]
            cand == Candidates(pc, b)
        IN IF cand = {}
           THEN matches' = matches
           ELSE LET k == CHOOSE c \in cand : \A d \in cand : c <= d
                IN /\ Len(matches') = Len(matches) + 1
                   /\ matches'[Len(matches')].bankParams = b
                   /\ matches'[Len(matches')].ledgerParams = unmatchedLedger[k]
                   /\ matches'[Len(matches')].confidence = ConfidenceOf(pc)

NoBacktracking ==
    /\ Len(matches') >= Len(matches)
    /\ \A n \in 1..Len(matches) : matches'[n] = matches[n]

\* b, or l, was still in its pool when pass p started
BankEntered(p, b) == \A c \in BankMatchedAt(b) : c <= ConfidenceOf(p)
LedgerEntered(p, l) == \A c \in LedgerMatchedAt(l) : c <= ConfidenceOf(p)

\* bank transactions k1 < k2 of the input compete in pass p for ledger
\* transaction kl alone, and no bank transaction behind k2 competes for it
TwoForOne(p, k1, k2, kl) ==
    LET b1 == bankTransactions[k1]
        b2 == bankTransactions[k2]
        l == ledgerTransactions[kl]
    IN /\ k1 < k2
       /\ BankEntered(p, b1) /\ BankEntered(p, b2) /\ LedgerEntered(p, l)
       /\ EligibleIn(p, b1, l) /\ EligibleIn(p, b2, l)
       /\ \A n \in 1..Len(ledgerTransactions) :
             (n # kl /\ LedgerEntered(p, ledgerTransactions[n])) =>
                 /\ ~EligibleIn(p, b1, ledgerTransactions[n])
                 /\ ~EligibleIn(p, b2, ledgerTransactions[n])
       /\ \A n \in (k2 + 1)..Len(bankTransactions) :
             BankEntered(p, bankTransactions[n]) =>
                 ~EligibleIn(p, bankTransactions[n], l)

LaterBankWins ==
    Done =>
        \A p \in Passes :
            \A k1, k2 \in 1..Len(bankTransactions), kl \in 1..Len(ledgerTransactions) :
                TwoForOne(p, k1, k2, kl) =>
                    PairedAt(bankTransactions[k2], ledgerTransactions[kl])
                        = {ConfidenceOf(p)}

C21_TieBreak ==
    /\ [][LowestCandidatePaired /\ NoBacktracking]_vars
    /\ []LaterBankWins

\* a bank transaction has been paired with the first of two ledger
\* transactions that were both eligible for it in the pass: the second, later
\* in the ledger input, is still in the pool
C21_Witness ==
    /\ pc \in Passes
    /\ matches # <<>>
    /\ matches[Len(matches)].confidence = ConfidenceOf(pc)
    /\ \E k1, k2 \in 1..Len(ledgerTransactions) :
          /\ k1 < k2
          /\ matches[Len(matches)].ledgerParams = ledgerTransactions[k1]
          /\ ledgerTransactions[k2] \in Range(unmatchedLedger)
          /\ EligibleIn(pc, matches[Len(matches)].bankParams, ledgerTransactions[k2])

\* a report in which two bank transactions competed in the second pass for
\* one ledger transaction
C21_WitnessLaterBankWins ==
    /\ Done
    /\ \E k1, k2 \in 1..Len(bankTransactions), kl \in 1..Len(ledgerTransactions) :
          TwoForOne("pass2", k1, k2, kl)

\* C22, as stated. Pass 3 criteria: in the report every bank and ledger
\* transaction that were both left after Pass 2 and have amounts within the
\* tolerance, equal types and a normalized description that contains the
\* other are matched with each other at confidence 0.7.
LeftAfterPass2Bank(b) == \A c \in BankMatchedAt(b) : c = 7
LeftAfterPass2Ledger(l) == \A c \in LedgerMatchedAt(l) : c = 7

EligibleLeftovers(kb, kl) ==
    /\ LeftAfterPass2Bank(bankTransactions[kb])
    /\ LeftAfterPass2Ledger(ledgerTransactions[kl])
    /\ EligibleForPass3(bankTransactions[kb], ledgerTransactions[kl])

DescriptionEntry(b, l) ==
    [bankParams |-> b, ledgerParams |-> l, confidence |-> 7,
     notes |-> "Match on Amount and similar Description"]

C22_EligibleLeftoversMatched ==
    Done =>
        \A kb \in 1..Len(bankTransactions) : \A kl \in 1..Len(ledgerTransactions) :
            EligibleLeftovers(kb, kl) =>
                DescriptionEntry(bankTransactions[kb], ledgerTransactions[kl])
                    \in Range(matches)

\* no other transaction left after Pass 2 satisfies the Pass 3 criteria with
\* either of the two
NoOtherPass3Candidate(kb, kl) ==
    /\ \A k \in 1..Len(ledgerTransactions) :
          (k # kl /\ LeftAfterPass2Ledger(ledgerTransactions[k])) =>
              ~EligibleForPass3(bankTransactions[kb], ledgerTransactions[k])
    /\ \A k \in 1..Len(bankTransactions) :
          (k # kb /\ LeftAfterPass2Bank(bankTransactions[k])) =>
              ~EligibleForPass3(bankTransactions[k], ledgerTransactions[kl])

\* a description without a letter or a digit: it normalizes to the empty
\* string
NormalizesToEmpty(description) ==
    \A n \in 1..Len(description) :
        description[n] \notin
            Range(UpperChars) \cup Range(LowerChars) \cup Range(DigitChars)

\* C22 as amended. Among the transactions left after Pass 2, a bank and a
\* ledger transaction with amounts within the tolerance, equal types and a
\* normalized description that contains the other, however far apart their
\* dates, are matched with each other at confidence 0.7 with the note "Match
\* on Amount and similar Description" when no other transaction left after
\* Pass 2 satisfies these criteria with either of them; the same holds, by
\* amount and type alone, when the description of one of the two has no
\* letter and no digit; and every entry of confidence 0.7 satisfies the
\* criteria.
C22_Pass3Criteria ==
    /\ Done =>
          \A kb \in 1..Len(bankTransactions) : \A kl \in 1..Len(ledgerTransactions) :
              (EligibleLeftovers(kb, kl) /\ NoOtherPass3Candidate(kb, kl)) =>
                  DescriptionEntry(bankTransactions[kb], ledgerTransactions[kl])
                      \in Range(matches)
    /\ Done =>
          \A kb \in 1..Len(bankTransactions) : \A kl \in 1..Len(ledgerTransactions) :
              (/\ LeftAfterPass2Bank(bankTransactions[kb])
               /\ LeftAfterPass2Ledger(ledgerTransactions[kl])
               /\ WithinTolerance(bankTransactions[kb], ledgerTransactions[kl])
               /\ bankTransactions[kb].type = ledgerTransactions[kl].type
               /\ \/ NormalizesToEmpty(bankTransactions[kb].description)
                  \/ NormalizesToEmpty(ledgerTransactions[kl].description)
               /\ NoOtherPass3Candidate(kb, kl)) =>
                  DescriptionEntry(bankTransactions[kb], ledgerTransactions[kl])
                      \in Range(matches)
    /\ \A n \in 1..Len(matches) :
          matches[n].confidence = 7 =>
              EligibleForPass3(matches[n].bankParams, matches[n].ledgerParams)

\* a report that pairs at confidence 0.7 two transactions more than 3 days
\* apart, one of which has a description that normalizes to the empty string
\* and the other a description that does not
C22_Witness ==
    /\ Done
    /\ \E n \in 1..Len(matches) :
          /\ matches[n].confidence = 7
          /\ DaysApart(matches[n].bankParams, matches[n].ledgerParams) > 3
          /\ NormalizesToEmpty(matches[n].bankParams.description)
          /\ ~NormalizesToEmpty(matches[n].ledgerParams.description)

\* C23. Safe removal during iteration: in each of the three loops, when i
\* transactions are still to be examined, the transactions read so far as
\* bankTx are the last ones of the bank pool as it was when the loop
\* started, from its last element downwards, each read once and each read
\* inside the pool; a loop is left only when i is 0, that is when every
\* transaction of that pool has been read exactly once; and no loop is left
\* by an error.
ExaminedOnceEach ==
    pc \in Passes =>
        /\ i \in 0..Len(unmatchedBank)
        /\ Len(examined) = Len(startPool) - i
        /\ \A k \in 1..Len(examined) :
              examined[k] = <<startPool[Len(startPool) - k + 1]>>

LoopLeftWhenAllExamined ==
    (pc \in Passes /\ pc' # pc) =>
        /\ pc' # "error"
        /\ i = 0
        /\ Len(examined) = Len(startPool)

C23_SafeRemoval ==
    /\ []ExaminedOnceEach
    /\ [][LoopLeftWhenAllExamined]_vars

\* the end of a loop over a pool of three or more transactions, during which
\* a transaction that was neither the first nor the last has been removed
\* and another has stayed
C23_Witness ==
    /\ pc \in Passes
    /\ i = 0
    /\ Len(startPool) >= 3
    /\ Len(examined) = Len(startPool)
    /\ \E k \in 2..(Len(startPool) - 1) : startPool[k] \notin Range(unmatchedBank)
    /\ unmatchedBank # <<>>

\* C24. Maximality at the end of each pass: from the end of the first loop
\* on, no transaction of unmatchedBank and transaction of unmatchedLedger
\* satisfy the Pass 1 criteria; from the end of the second loop on, none
\* satisfy the Pass 2 criteria; and in the report none satisfy the criteria
\* of any of the three passes.
NoPairLeft(p) ==
    \A kb \in 1..Len(unmatchedBank) : \A kl \in 1..Len(unmatchedLedger) :
        ~EligibleIn(p, unmatchedBank[kb], unmatchedLedger[kl])

Pass1Over == (pc = "pass1" /\ i = 0) \/ pc \in {"pass2", "pass3", "done"}
Pass2Over == (pc = "pass2" /\ i = 0) \/ pc \in {"pass3", "done"}

C24_Maximality ==
    /\ Pass1Over => NoPairLeft("pass1")
    /\ Pass2Over => NoPairLeft("pass2")
    /\ Done => NoPairLeft("pass1") /\ NoPairLeft("pass2") /\ NoPairLeft("pass3")

\* a report with a match, and with an unmatched bank and an unmatched ledger
\* transaction that have amounts within the tolerance and equal types
C24_Witness ==
    /\ Done
    /\ matches # <<>>
    /\ \E kb \in 1..Len(unmatchedBank) : \E kl \in 1..Len(unmatchedLedger) :
          /\ WithinTolerance(unmatchedBank[kb], unmatchedLedger[kl])
          /\ unmatchedBank[kb].type = unmatchedLedger[kl].type

\* C25. Reset wins over a pending reconciliation: while reset has run and
\* handleReconcile has not been called since, reconciliationReport is null;
\* a timer scheduled before the reset sets no report after it.
C25_ResetWins == resetSinceReconcile => reconciliationReport = <<>>

\* C26. No stale parse result: the file state of each side belongs to the
\* file last put on that side; a side that reset has cleared and on which
\* no file has been put since is undefined, whatever parse settles.
SideFile(type) == IF type = "BANK" THEN bankFile ELSE ledgerFile

C26_NoStaleParseResult ==
    \A type \in {"BANK", "LEDGER"} :
        /\ lastSelected[type] = <<>> => SideFile(type) = <<>>
        /\ SideFile(type) # <<>> =>
              <<SideFile(type)[1].file>> = lastSelected[type]

====
